---- MODULE Spec2Model ----
(***************************************************************************)
(* Model of LEAKER_RELATIONAL's relational cardinality estimation code:    *)
(*   - NaruRelationalEstimator   (attack/relational_estimators/estimator.py)*)
(*   - ErrorMetric, evaluate_estimator, run_rlen_eval                      *)
(*                               (attack/relational_estimators/eval.py)    *)
(*   - SQLConnection             (sql_interface/sql.py)                    *)
(* Each part has its own specification (SpecEst, SpecMetric, SpecEval,     *)
(* SpecSweep, SpecSQL) over the variables of that part.                    *)
(***************************************************************************)
EXTENDS Integers, Sequences, FiniteSets, TLC

\* ------------------------------------------------------------------------
\* Bounds of the model
\* ------------------------------------------------------------------------
NumTables == 2
NumAttrs == 1
MaxCard == 2
MaxTrain == 3
MaxEstimate == 2
MaxQueryResult == 1

\* --- NaruRelationalEstimator ---------------------------------------------
VARIABLES
  est_pc,          \* "unconstructed" | "ready" | "failed" (constructor raised)
  tables,          \* table ids of the tables known to the sample database
  sample_open,     \* the sample database's session is open
  open_at_ctor,    \* value of _dataset_sample.is_open() on entry of __init__
  _table_dict,     \* table ids that have a (CsvTable, CsvTable) entry
  _estimator,      \* [is_None, dict]: None, or table id -> engine (tagged by
                   \* the number of the train() pass that created it)
  train_calls,     \* train() passes started so far
  ctor_trains,     \* ... of which started by __init__
  lazy_trains,     \* ... of which started by estimate()
  explicit_trains, \* ... of which called by the user of the estimator
  train_status,    \* outcome of the latest train(): "none" | "done" | "raised"
  estimate_calls,  \* estimate() calls so far
  query_calls,     \* invocations of a query engine's Query so far
  last_call        \* the latest call on the estimator and its outcome

estVars == <<est_pc, tables, sample_open, open_at_ctor, _table_dict, _estimator,
             train_calls, ctor_trains, lazy_trains, explicit_trains,
             train_status, estimate_calls, query_calls, last_call>>

\* --- ErrorMetric -------------------------------------------------------
VARIABLES
  em_est_card,     \* the estimated value handed to ErrorMetric (a fraction)
  em_card,         \* the actual value handed to ErrorMetric (a fraction)
  em_applied,      \* ErrorMetric has been applied to the inputs
  em_result        \* what it returned

metricVars == <<em_est_card, em_card, em_applied, em_result>>

\* --- evaluate_estimator -------------------------------------------------
VARIABLES
  ev_status,        \* "idle" | "returned" | "raised"
  ev_use_cooc,      \* argument use_cooc
  ev_ignore_zero_one, \* argument ignore_zero_one
  ev_est_values,    \* per query of the workload: what estimator.estimate gave
  ev_actual_values, \* per query of the workload: the ground-truth count
  error_value_list, \* the errors collected by the loop
  ev_maximum        \* the maximum statistic returned

evalVars == <<ev_status, ev_use_cooc, ev_ignore_zero_one, ev_est_values,
              ev_actual_values, error_value_list, ev_maximum>>

\* --- run_rlen_eval ------------------------------------------------------
VARIABLES
  sw_pc,           \* position of run_rlen_eval
  nr_of_evals,     \* argument nr_of_evals
  use_cooc,        \* argument use_cooc
  sw_i,            \* loop variable i (trial)
  sw_rate_idx,     \* index of known_data_rate in the list of rates
  mimic_open,      \* the session of mimic_db is open
  sample_draws,    \* mimic_db.sample() calls so far
  query_draws,     \* mimic_db.queries() calls so far
  sampled_db,      \* the current sample (number of the draw that made it)
  kw_sample,       \* the current workload (numbers of the draws that made it)
  results_list     \* the Evaluation Records appended so far

sweepVars == <<sw_pc, nr_of_evals, use_cooc, sw_i, sw_rate_idx, mimic_open,
               sample_draws, query_draws, sampled_db, kw_sample, results_list>>

\* --- SQLConnection ------------------------------------------------------
VARIABLES
  connection,      \* __connection: 0 for None, else the id of the connection
  conns_made,      \* connections established so far (source of the ids)
  sql_calls,       \* calls made on the SQLConnection so far
  sql_executed,    \* queries handed to cursor.execute so far
  sql_warnings,    \* log.warning calls so far
  sql_last         \* the latest call and its outcome

sqlVars == <<connection, conns_made, sql_calls, sql_executed, sql_warnings,
             sql_last>>

vars == <<estVars, metricVars, evalVars, sweepVars, sqlVars>>

\* ------------------------------------------------------------------------
\* The parts a specification does not exercise rest in these states
\* ------------------------------------------------------------------------
One == [num |-> 1, den |-> 1]
Zero == [num |-> 0, den |-> 1]

EstIdle ==
  /\ est_pc = "unconstructed"
  /\ tables = 1..NumTables
  /\ sample_open = FALSE
  /\ open_at_ctor = FALSE
  /\ _table_dict = {}
  /\ _estimator = [is_None |-> TRUE, dict |-> <<>>]
  /\ train_calls = 0
  /\ ctor_trains = 0
  /\ lazy_trains = 0
  /\ explicit_trains = 0
  /\ train_status = "none"
  /\ estimate_calls = 0
  /\ query_calls = 0
  /\ last_call = [op |-> "none", kw |-> [table |-> 0, attr |-> 0],
                  kw2 |-> [table |-> 0, attr |-> 0],
                  result |-> [kind |-> "none", v |-> 0, queried |-> FALSE],
                  trained |-> 0]

MetricIdle ==
  /\ em_est_card = Zero
  /\ em_card = Zero
  /\ em_applied = FALSE
  /\ em_result = Zero

EvalIdle ==
  /\ ev_status = "idle"
  /\ ev_use_cooc = FALSE
  /\ ev_ignore_zero_one = FALSE
  /\ ev_est_values = <<>>
  /\ ev_actual_values = <<>>
  /\ error_value_list = <<>>
  /\ ev_maximum = Zero

SweepIdle ==
  /\ sw_pc = "start"
  /\ nr_of_evals = 1
  /\ use_cooc = FALSE
  /\ sw_i = 0
  /\ sw_rate_idx = 1
  /\ mimic_open = FALSE
  /\ sample_draws = 0
  /\ query_draws = 0
  /\ sampled_db = 0
  /\ kw_sample = <<>>
  /\ results_list = <<>>

SqlIdle ==
  /\ connection = 0
  /\ conns_made = 0
  /\ sql_calls = 0
  /\ sql_executed = 0
  /\ sql_warnings = 0
  /\ sql_last = [op |-> "none", was_open |-> FALSE, outcome |-> "none",
                 raised |-> "none"]

\* ------------------------------------------------------------------------
\* NaruRelationalEstimator
\* ------------------------------------------------------------------------
TableIds == 1..NumTables
NoKw == [table |-> 0, attr |-> 0]
\* a predicate (table, attr, value); the value is only handed on to Query
Keywords == [table : tables, attr : 1..NumAttrs]
NoneEstimator == [is_None |-> TRUE, dict |-> <<>>]
NoResult == [kind |-> "none", v |-> 0, queried |-> FALSE]
KeyError == [kind |-> "KeyError", v |-> 0, queried |-> FALSE]
Raised == [kind |-> "raised", v |-> 0, queried |-> FALSE]
NoCall == [op |-> "none", kw |-> NoKw, kw2 |-> NoKw, result |-> NoResult,
           trained |-> 0]
\* a train() pass either runs over all tables (Completed) or is aborted by an
\* exception while it trains the model of table failAt
Completed == NumTables + 1
TrainOutcomes == tables \cup {Completed}

\* train() with the tables before `upto` trained: the registry is a fresh
\* dict() that gets one ProgressiveSampling engine per trained table.
train_keep(old, gen, upto) ==
  [t \in DOMAIN old \cup {x \in tables : x < upto} |->
      IF t \in DOMAIN old THEN old[t] ELSE gen]

train(old, gen, upto) ==
  [t \in {x \in tables : x < upto} |-> gen]

\* What estimate(kw, kw2) returns on registry reg when the engine's Query
\* would answer q.
estimate_nocheck(kw, kw2, td, reg, q) ==
  IF kw.table \notin td THEN KeyError
  ELSE IF kw.table \notin DOMAIN reg THEN KeyError
  ELSE [kind |-> "value", v |-> q, queried |-> TRUE]

estimate_return(kw, kw2, td, reg, q) ==
  IF kw.table \notin td THEN KeyError
  ELSE IF kw2 = NoKw
    THEN IF kw.table \notin DOMAIN reg THEN KeyError
         ELSE [kind |-> "value", v |-> q, queried |-> TRUE]
    ELSE IF kw2.table # kw.table
      THEN [kind |-> "value", v |-> 0, queried |-> FALSE]
      ELSE IF kw.table \notin DOMAIN reg THEN KeyError
           ELSE [kind |-> "value", v |-> q, queried |-> TRUE]

\* line 136 with the test dropped: every estimate() trains
needs_training_always(est) == TRUE

\* line 136: `self._estimator is None`
needs_training(est) == est.is_None

InitEst ==
  /\ est_pc = "unconstructed"
  /\ tables \in (SUBSET TableIds) \ {{}}
  /\ sample_open \in BOOLEAN
  /\ open_at_ctor = FALSE
  /\ _table_dict = {}
  /\ _estimator = NoneEstimator
  /\ train_calls = 0
  /\ ctor_trains = 0
  /\ lazy_trains = 0
  /\ explicit_trains = 0
  /\ train_status = "none"
  /\ estimate_calls = 0
  /\ query_calls = 0
  /\ last_call = NoCall
  /\ MetricIdle /\ EvalIdle /\ SweepIdle /\ SqlIdle

\* an __init__ that leaves training to the caller when the sample is open
NaruInit_deferred ==
  /\ est_pc = "unconstructed"
  /\ UNCHANGED <<metricVars, evalVars, sweepVars, sqlVars>>
  /\ open_at_ctor' = sample_open
  /\ _table_dict' = tables
  /\ UNCHANGED <<tables, sample_open, lazy_trains, explicit_trains,
                 estimate_calls, query_calls>>
  /\ IF ~sample_open
       THEN /\ train_calls' = train_calls + 1
            /\ ctor_trains' = ctor_trains + 1
            /\ _estimator' = [is_None |-> FALSE,
                              dict |-> train(_estimator.dict, train_calls + 1, Completed)]
            /\ train_status' = "done"
       ELSE UNCHANGED <<train_calls, ctor_trains, _estimator, train_status>>
  /\ est_pc' = "ready"
  /\ last_call' = [NoCall EXCEPT !.op = "__init__",
                                 !.trained = IF sample_open THEN 0 ELSE 1]

\* __init__: builds _table_dict for every table of the sample and trains, inside
\* `with self._dataset_sample` when the sample is not open (the session is
\* then closed again on exit, also when train() raises), directly otherwise.
NaruInit ==
  /\ est_pc = "unconstructed"
  /\ UNCHANGED <<metricVars, evalVars, sweepVars, sqlVars>>
  /\ open_at_ctor' = sample_open
  /\ _table_dict' = tables
  /\ train_calls' = train_calls + 1
  /\ ctor_trains' = ctor_trains + 1
  /\ UNCHANGED <<tables, sample_open, lazy_trains, explicit_trains,
                 estimate_calls, query_calls>>
  /\ \E upto \in TrainOutcomes :
       /\ _estimator' = [is_None |-> FALSE,
                         dict |-> train(_estimator.dict, train_calls + 1, upto)]
       /\ train_status' = IF upto = Completed THEN "done" ELSE "raised"
       /\ est_pc' = IF upto = Completed THEN "ready" ELSE "failed"
       /\ last_call' = [NoCall EXCEPT !.op = "__init__", !.trained = 1,
                          !.result = IF upto = Completed THEN NoResult ELSE Raised]

\* an explicit train() call on the constructed estimator
Train ==
  /\ est_pc = "ready"
  /\ train_calls < MaxTrain
  /\ UNCHANGED <<metricVars, evalVars, sweepVars, sqlVars>>
  /\ train_calls' = train_calls + 1
  /\ explicit_trains' = explicit_trains + 1
  /\ UNCHANGED <<est_pc, tables, sample_open, open_at_ctor, _table_dict,
                 ctor_trains, lazy_trains, estimate_calls, query_calls>>
  /\ \E upto \in TrainOutcomes :
       /\ _estimator' = [is_None |-> FALSE,
                         dict |-> train(_estimator.dict, train_calls + 1, upto)]
       /\ train_status' = IF upto = Completed THEN "done" ELSE "raised"
       /\ last_call' = [NoCall EXCEPT !.op = "train", !.trained = 1,
                          !.result = IF upto = Completed THEN NoResult ELSE Raised]

\* estimate(kw, kw2): trains first when _estimator is None, then answers
estimate(kw, kw2) ==
  /\ est_pc = "ready"
  /\ estimate_calls < MaxEstimate
  /\ UNCHANGED <<metricVars, evalVars, sweepVars, sqlVars>>
  /\ estimate_calls' = estimate_calls + 1
  /\ UNCHANGED <<est_pc, tables, sample_open, open_at_ctor, _table_dict,
                 ctor_trains, explicit_trains>>
  /\ IF needs_training(_estimator)
       THEN \E upto \in TrainOutcomes :
            /\ train_calls' = train_calls + 1
            /\ lazy_trains' = lazy_trains + 1
            /\ _estimator' = [is_None |-> FALSE,
                              dict |-> train(_estimator.dict, train_calls + 1, upto)]
            /\ train_status' = IF upto = Completed THEN "done" ELSE "raised"
            /\ IF upto = Completed
                 THEN \E q \in 0..MaxQueryResult :
                      LET r == estimate_return(kw, kw2, _table_dict, _estimator'.dict, q)
                      IN /\ last_call' = [op |-> "estimate", kw |-> kw, kw2 |-> kw2,
                                          result |-> r, trained |-> 1]
                         /\ query_calls' = query_calls + (IF r.queried THEN 1 ELSE 0)
                 ELSE /\ last_call' = [op |-> "estimate", kw |-> kw, kw2 |-> kw2,
                                       result |-> Raised, trained |-> 1]
                      /\ UNCHANGED query_calls
       ELSE /\ UNCHANGED <<train_calls, lazy_trains, _estimator, train_status>>
            /\ \E q \in 0..MaxQueryResult :
               LET r == estimate_return(kw, kw2, _table_dict, _estimator.dict, q)
               IN /\ last_call' = [op |-> "estimate", kw |-> kw, kw2 |-> kw2,
                                   result |-> r, trained |-> 0]
                  /\ query_calls' = query_calls + (IF r.queried THEN 1 ELSE 0)

Estimate ==
  \E kw \in Keywords, kw2 \in Keywords \cup {NoKw} : estimate(kw, kw2)

NextEst ==
  \/ NaruInit
  \/ Train
  \/ Estimate

SpecEst == InitEst /\ [][NextEst]_vars

\* ------------------------------------------------------------------------
\* Properties of NaruRelationalEstimator (checked under SpecEst)
\* ------------------------------------------------------------------------
CrossTable(call) ==
  /\ call.op = "estimate"
  /\ call.kw2 # NoKw
  /\ call.kw2.table # call.kw.table

\* C1: an estimate(kw, kw2) call with kw2.table # kw.table returns 0 and does
\* not invoke any query engine's Query, whatever train() and estimate() calls
\* came before it.
C1_CrossTableZero ==
  [][(estimate_calls' = estimate_calls + 1 /\ CrossTable(last_call'))
       => /\ last_call'.result.kind = "value"
          /\ last_call'.result.v = 0
          /\ ~last_call'.result.queried
          /\ query_calls' = query_calls]_vars

\* C1 witness: a cross-table estimate has returned 0 on an estimator that was
\* retrained and has answered a same-table query through Query before.
C1_Witness ==
  /\ CrossTable(last_call)
  /\ last_call.result.v = 0
  /\ explicit_trains > 0
  /\ query_calls > 0

\* C2 as claimed: with no explicit train() call, the first estimate call runs
\* train() once (and no later one does), so after one or more estimate calls
\* exactly one training pass has been started by estimate.
C2_Original ==
  (est_pc = "ready" /\ explicit_trains = 0 /\ estimate_calls >= 1)
    => lazy_trains = 1

\* C2 amended: no estimate call on a constructed estimator runs train(): the
\* one training pass has been run by the constructor, so with no explicit
\* train() call exactly one pass has run however many estimate calls were made.
C2_Amended ==
  est_pc = "ready"
    => /\ lazy_trains = 0
       /\ (last_call.op = "estimate" => last_call.trained = 0)
       /\ (explicit_trains = 0 => train_calls = 1 /\ ctor_trains = 1)

\* C2 witness: two estimate calls were made and no explicit train().
C2_Witness ==
  /\ est_pc = "ready"
  /\ explicit_trains = 0
  /\ estimate_calls >= 2
  /\ last_call.op = "estimate"
  /\ train_calls = 1

\* C3 as claimed: construction trains iff the sample database is not open;
\* on an open sample no training runs in the constructor and the estimator
\* is untrained until an explicit train().
C3_Original ==
  est_pc = "ready"
    => /\ (~open_at_ctor => ctor_trains = 1)
       /\ (open_at_ctor => ctor_trains = 0)
       /\ (open_at_ctor /\ explicit_trains = 0 => _estimator.is_None)

\* C3 amended: construction runs exactly one training pass whether or not the
\* sample database is in an open session; the constructed estimator is never
\* untrained.
C3_Amended ==
  est_pc = "ready"
    => /\ ctor_trains = 1
       /\ ~_estimator.is_None
       /\ (last_call.op = "__init__"
             => train_status = "done" /\ DOMAIN _estimator.dict = tables)

\* C3 witness: the estimator was just constructed on a sample database that
\* was open, and it is trained.
C3_Witness ==
  /\ est_pc = "ready"
  /\ last_call.op = "__init__"
  /\ open_at_ctor
  /\ ctor_trains = 1
  /\ ~_estimator.is_None

\* C4: after every completed train(), first or repeated, the registry's keys
\* are exactly the table ids of the sample database and every entry was made
\* by that latest train() pass.
C4_RegistryAfterTrain ==
  train_status = "done"
    => /\ ~_estimator.is_None
       /\ DOMAIN _estimator.dict = tables
       /\ \A t \in tables : _estimator.dict[t] = train_calls

\* C4 witness: a repeated explicit train() has just completed on a sample
\* database with every table.
C4_Witness ==
  /\ last_call.op = "train"
  /\ train_status = "done"
  /\ explicit_trains >= 2
  /\ tables = TableIds

\* ------------------------------------------------------------------------
\* ErrorMetric (numbers are exact fractions num/den in lowest terms)
\* ------------------------------------------------------------------------
MaxVal == 5
MaxDen == 2

RECURSIVE GCD(_, _)
GCD(a, b) == IF b = 0 THEN a ELSE GCD(b, a % b)

Frac(n, d) == [num |-> n \div GCD(n, d), den |-> d \div GCD(n, d)]
Fractions == {Frac(n, d) : n \in 0..MaxVal, d \in 1..MaxDen}
IsZero(x) == x.num = 0
Less(x, y) == x.num * y.den < y.num * x.den
\* x / y, for y # 0
Div(x, y) == Frac(x.num * y.den, x.den * y.num)
\* Python's max(x, y): the first argument unless the second is larger
Max(x, y) == IF Less(x, y) THEN y ELSE x

ErrorMetric_nomax(est_card, card) ==
  IF IsZero(card) /\ ~IsZero(est_card) THEN est_card
  ELSE IF ~IsZero(card) /\ IsZero(est_card) THEN card
  ELSE IF IsZero(card) /\ IsZero(est_card) THEN One
  ELSE Div(est_card, card)

ErrorMetric(est_card, card) ==
  IF IsZero(card) /\ ~IsZero(est_card) THEN est_card
  ELSE IF ~IsZero(card) /\ IsZero(est_card) THEN card
  ELSE IF IsZero(card) /\ IsZero(est_card) THEN One
  ELSE Max(Div(est_card, card), Div(card, est_card))

InitMetric ==
  /\ em_est_card \in Fractions
  /\ em_card \in Fractions
  /\ em_applied = FALSE
  /\ em_result = Zero
  /\ EstIdle /\ EvalIdle /\ SweepIdle /\ SqlIdle

ApplyErrorMetric ==
  /\ ~em_applied
  /\ em_applied' = TRUE
  /\ em_result' = ErrorMetric(em_est_card, em_card)
  /\ UNCHANGED <<em_est_card, em_card>>
  /\ UNCHANGED <<estVars, evalVars, sweepVars, sqlVars>>

NextMetric ==
  \/ ApplyErrorMetric

SpecMetric == InitMetric /\ [][NextMetric]_vars

\* ------------------------------------------------------------------------
\* Properties of ErrorMetric (checked under SpecMetric)
\* ------------------------------------------------------------------------
\* C5: for non-negative est and card, ErrorMetric is 1.0 when both are zero,
\* the non-zero value when exactly one is zero, and otherwise the larger of
\* est/card and card/est, which is >= 1 and equals 1 exactly when est = card;
\* and ErrorMetric(est, card) = ErrorMetric(card, est).
C5_ErrorMetric ==
  em_applied =>
    LET a == em_est_card
        c == em_card
        r == em_result
        p == a.num * c.den   \* a / c = p / q
        q == a.den * c.num
    IN /\ (a.num = 0 /\ c.num = 0 => r = One)
       /\ (a.num = 0 /\ c.num # 0 => r = c)
       /\ (a.num # 0 /\ c.num = 0 => r = a)
       /\ (a.num # 0 /\ c.num # 0 =>
             /\ (r.num * q = r.den * p \/ r.num * p = r.den * q)
             /\ r.num * q >= r.den * p
             /\ r.num * p >= r.den * q
             /\ r.num >= r.den
             /\ (r.num = r.den <=> a = c))
       /\ r = ErrorMetric(c, a)

\* C5 witness: ErrorMetric was applied to two different non-zero values of
\* which the estimate is the smaller one.
C5_Witness ==
  /\ em_applied
  /\ em_est_card.num # 0
  /\ Less(em_est_card, em_card)
  /\ em_result = Div(em_card, em_est_card)

\* ------------------------------------------------------------------------
\* evaluate_estimator
\* ------------------------------------------------------------------------
MaxQueries == 3

IntFrac(n) == [num |-> n, den |-> 1]

\* the loop of the single-predicate branch over queries i..Len(ests)
RECURSIVE errors_single(_, _, _, _)
errors_single(ignore_zero_one, ests, acts, i) ==
  IF i > Len(ests) THEN <<>>
  ELSE IF ~(ignore_zero_one /\ ests[i] = 0 /\ acts[i] = 1)
    THEN <<ErrorMetric(IntFrac(ests[i]), IntFrac(acts[i]))>>
           \o errors_single(ignore_zero_one, ests, acts, i + 1)
    ELSE errors_single(ignore_zero_one, ests, acts, i + 1)

\* a co-occurrence loop that drops every query whose estimate is 0
RECURSIVE errors_cooc_anyzero(_, _, _, _)
errors_cooc_anyzero(ignore_zero_one, ests, acts, i) ==
  IF i > Len(ests) THEN <<>>
  ELSE IF ~(ignore_zero_one /\ ests[i] = 0)
    THEN <<ErrorMetric(IntFrac(ests[i]), IntFrac(acts[i]))>>
           \o errors_cooc_anyzero(ignore_zero_one, ests, acts, i + 1)
    ELSE errors_cooc_anyzero(ignore_zero_one, ests, acts, i + 1)

\* the loop of the co-occurrence branch over query pairs i..Len(ests)
RECURSIVE errors_cooc(_, _, _, _)
errors_cooc(ignore_zero_one, ests, acts, i) ==
  IF i > Len(ests) THEN <<>>
  ELSE IF ~(ignore_zero_one /\ ests[i] = 0 /\ acts[i] = 1)
    THEN <<ErrorMetric(IntFrac(ests[i]), IntFrac(acts[i]))>>
           \o errors_cooc(ignore_zero_one, ests, acts, i + 1)
    ELSE errors_cooc(ignore_zero_one, ests, acts, i + 1)

\* np.max of a non-empty list
RECURSIVE MaxOf(_)
MaxOf(l) == IF Len(l) = 1 THEN l[1] ELSE Max(l[1], MaxOf(Tail(l)))

InitEval ==
  /\ EvalIdle
  /\ EstIdle /\ MetricIdle /\ SweepIdle /\ SqlIdle

\* evaluate_estimator(estimator, keywords, use_cooc, ignore_zero_one): the
\* estimator and the ground-truth extension answer each query with some count;
\* the statistics of an empty error list raise.
EvaluateEstimator ==
  /\ ev_status = "idle"
  /\ \E cooc \in BOOLEAN, ignore \in BOOLEAN, n \in 0..MaxQueries :
       \E ests \in [1..n -> 0..MaxCard], acts \in [1..n -> 0..MaxCard] :
         LET errs == IF ~cooc THEN errors_single(ignore, ests, acts, 1)
                               ELSE errors_cooc(ignore, ests, acts, 1)
         IN /\ ev_use_cooc' = cooc
            /\ ev_ignore_zero_one' = ignore
            /\ ev_est_values' = ests
            /\ ev_actual_values' = acts
            /\ error_value_list' = errs
            /\ ev_status' = IF errs = <<>> THEN "raised" ELSE "returned"
            /\ ev_maximum' = IF errs = <<>> THEN Zero ELSE MaxOf(errs)
  /\ UNCHANGED <<estVars, metricVars, sweepVars, sqlVars>>

NextEval ==
  \/ EvaluateEstimator

SpecEval == InitEval /\ [][NextEval]_vars

\* ------------------------------------------------------------------------
\* Properties of evaluate_estimator (checked under SpecEval)
\* ------------------------------------------------------------------------
Dropped(i) ==
  ev_ignore_zero_one /\ ev_est_values[i] = 0 /\ ev_actual_values[i] = 1
Kept == {i \in 1..Len(ev_est_values) : ~Dropped(i)}

\* C7: with ignore_zero_one a query's error is left out iff its estimate is 0
\* and its ground truth is 1; every other query contributes exactly one error
\* value (its ErrorMetric, in workload order), in both modes; without the
\* flag no query is left out.
C7_ZeroOneFilter ==
  ev_status # "idle" =>
    /\ Len(error_value_list) = Cardinality(Kept)
    /\ \A i \in Kept :
         error_value_list[Cardinality({j \in Kept : j <= i})]
           = ErrorMetric(IntFrac(ev_est_values[i]), IntFrac(ev_actual_values[i]))
    /\ (~ev_ignore_zero_one => Len(error_value_list) = Len(ev_est_values))

\* C7 witness: a co-occurrence workload evaluated with the flag set held a
\* 0/1 query, a 0/0 query and a 1/1 query, and two errors were collected.
C7_Witness ==
  /\ ev_status = "returned"
  /\ ev_use_cooc
  /\ ev_ignore_zero_one
  /\ \E i, j, k \in 1..Len(ev_est_values) :
       /\ ev_est_values[i] = 0 /\ ev_actual_values[i] = 1
       /\ ev_est_values[j] = 0 /\ ev_actual_values[j] = 0
       /\ ev_est_values[k] = 1 /\ ev_actual_values[k] = 1
  /\ Len(error_value_list) = Len(ev_est_values) - 1

\* ------------------------------------------------------------------------
\* SQLConnection
\* ------------------------------------------------------------------------
MaxCalls == 4

is_open == connection # 0

InitSQL ==
  /\ SqlIdle
  /\ EstIdle /\ MetricIdle /\ EvalIdle /\ SweepIdle

\* open() that lets the connector's Error escape
open_raising ==
  /\ sql_calls < MaxCalls
  /\ sql_calls' = sql_calls + 1
  /\ UNCHANGED <<estVars, metricVars, evalVars, sweepVars>>
  /\ UNCHANGED sql_executed
  /\ \/ /\ connection' = conns_made + 1
        /\ conns_made' = conns_made + 1
        /\ UNCHANGED sql_warnings
        /\ sql_last' = [op |-> "open", was_open |-> is_open,
                        outcome |-> "connected", raised |-> "none"]
     \/ /\ UNCHANGED <<connection, conns_made, sql_warnings>>
        /\ sql_last' = [op |-> "open", was_open |-> is_open,
                        outcome |-> "failed", raised |-> "Error"]

\* open(): mysql.connector.connect either returns a new connection, which
\* replaces __connection, or raises Error, which is logged as a warning.
open ==
  /\ sql_calls < MaxCalls
  /\ sql_calls' = sql_calls + 1
  /\ UNCHANGED <<estVars, metricVars, evalVars, sweepVars>>
  /\ UNCHANGED sql_executed
  /\ \/ /\ connection' = conns_made + 1
        /\ conns_made' = conns_made + 1
        /\ UNCHANGED sql_warnings
        /\ sql_last' = [op |-> "open", was_open |-> is_open,
                        outcome |-> "connected", raised |-> "none"]
     \/ /\ sql_warnings' = sql_warnings + 1
        /\ UNCHANGED <<connection, conns_made>>
        /\ sql_last' = [op |-> "open", was_open |-> is_open,
                        outcome |-> "failed", raised |-> "none"]

\* close(), also reached through __exit__
close ==
  /\ sql_calls < MaxCalls
  /\ sql_calls' = sql_calls + 1
  /\ UNCHANGED <<estVars, metricVars, evalVars, sweepVars>>
  /\ UNCHANGED <<conns_made, sql_executed, sql_warnings>>
  /\ connection' = 0
  /\ sql_last' = [op |-> "close", was_open |-> is_open,
                  outcome |-> IF is_open THEN "closed" ELSE "none",
                  raised |-> "none"]

\* execute_query(query): ConnectionError unless open; cursor.execute then
\* either commits or raises Error, which is logged as a warning.
execute_query ==
  /\ sql_calls < MaxCalls
  /\ sql_calls' = sql_calls + 1
  /\ UNCHANGED <<estVars, metricVars, evalVars, sweepVars>>
  /\ UNCHANGED <<connection, conns_made>>
  /\ IF ~is_open
       THEN /\ UNCHANGED <<sql_executed, sql_warnings>>
            /\ sql_last' = [op |-> "execute_query", was_open |-> FALSE,
                            outcome |-> "none", raised |-> "ConnectionError"]
       ELSE /\ sql_executed' = sql_executed + 1
            /\ \/ /\ UNCHANGED sql_warnings
                  /\ sql_last' = [op |-> "execute_query", was_open |-> TRUE,
                                  outcome |-> "committed", raised |-> "none"]
               \/ /\ sql_warnings' = sql_warnings + 1
                  /\ sql_last' = [op |-> "execute_query", was_open |-> TRUE,
                                  outcome |-> "failed", raised |-> "none"]

NextSQL ==
  \/ open
  \/ close
  \/ execute_query

SpecSQL == InitSQL /\ [][NextSQL]_vars

\* ------------------------------------------------------------------------
\* Properties of SQLConnection (checked under SpecSQL)
\* ------------------------------------------------------------------------
FailedOpen(call) == call.op = "open" /\ call.outcome = "failed"

\* C9 as claimed: a failed open() does not raise, is logged and leaves
\* is_open() false; execute_query while is_open() is false raises
\* ConnectionError, executes nothing and leaves the connection state unchanged.
C9_Original ==
  [][sql_calls' = sql_calls + 1 =>
       /\ (FailedOpen(sql_last') =>
             /\ sql_last'.raised = "none"
             /\ sql_warnings' = sql_warnings + 1
             /\ connection' = 0)
       /\ (sql_last'.op = "execute_query" /\ ~is_open =>
             /\ sql_last'.raised = "ConnectionError"
             /\ sql_executed' = sql_executed
             /\ connection' = connection
             /\ conns_made' = conns_made)]_vars

\* C9 amended: a failed open() does not raise, is logged and leaves the
\* connection as it was, so is_open() is false afterwards when the connection
\* was not open before the call (an already open connection stays open);
\* execute_query while is_open() is false raises ConnectionError, executes
\* nothing and leaves the connection state unchanged.
C9_Amended ==
  [][sql_calls' = sql_calls + 1 =>
       /\ (FailedOpen(sql_last') =>
             /\ sql_last'.raised = "none"
             /\ sql_warnings' = sql_warnings + 1
             /\ connection' = connection
             /\ (~is_open => connection' = 0))
       /\ (sql_last'.op = "execute_query" /\ ~is_open =>
             /\ sql_last'.raised = "ConnectionError"
             /\ sql_executed' = sql_executed
             /\ connection' = connection
             /\ conns_made' = conns_made)]_vars

\* C9 witness: after a failed open() on a connection that was not open (the
\* only warning so far), execute_query has raised ConnectionError.
C9_Witness ==
  /\ sql_last.op = "execute_query"
  /\ sql_last.raised = "ConnectionError"
  /\ sql_warnings >= 1
  /\ sql_executed = 0
  /\ connection = 0

\* ------------------------------------------------------------------------
\* run_rlen_eval
\* ------------------------------------------------------------------------
MaxEvals == 2

\* known_data_rate in [i / 10 for i in range(2, 10, 2)], in tenths
RateStart == 2
RateStop == 10
RateStep == 2
Rates_short ==
  [k \in 1..((RateStop - RateStep - RateStart + RateStep - 1) \div RateStep) |->
      RateStart + (k - 1) * RateStep]

Rates ==
  [k \in 1..((RateStop - RateStart + RateStep - 1) \div RateStep) |->
      RateStart + (k - 1) * RateStep]

InitSweep ==
  /\ sw_pc = "start"
  /\ nr_of_evals \in 1..MaxEvals
  /\ use_cooc \in BOOLEAN
  /\ sw_i = 0
  /\ sw_rate_idx = 1
  /\ mimic_open = FALSE
  /\ sample_draws = 0
  /\ query_draws = 0
  /\ sampled_db = 0
  /\ kw_sample = <<>>
  /\ results_list = <<>>
  /\ EstIdle /\ MetricIdle /\ EvalIdle /\ SqlIdle

\* The Evaluation Record appended for `method`: its label is method-rate; the
\* trial, the sample, the workload and the number of draws made so far are
\* kept with it to tell what the estimator was evaluated on.
record(method) ==
  [method |-> method, rate |-> Rates[sw_rate_idx], trial |-> sw_i,
   sample |-> sampled_db, workload |-> kw_sample,
   draws |-> sample_draws + query_draws]

\* lines 112-119: the extension is set up, results_list = []
SwBegin ==
  /\ sw_pc = "start"
  /\ sw_pc' = "rate"
  /\ results_list' = <<>>
  /\ UNCHANGED <<nr_of_evals, use_cooc, sw_i, sw_rate_idx, mimic_open,
                 sample_draws, query_draws, sampled_db, kw_sample>>
  /\ UNCHANGED <<estVars, metricVars, evalVars, sqlVars>>

\* lines 125-126: mimic_db.open() (which fails without raising, leaving the
\* session as it was), then mimic_db.sample(known_data_rate), which needs
\* the session
SwOpenSample ==
  /\ sw_pc = "rate"
  /\ UNCHANGED <<nr_of_evals, use_cooc, sw_i, sw_rate_idx, query_draws,
                 kw_sample, results_list>>
  /\ UNCHANGED <<estVars, metricVars, evalVars, sqlVars>>
  /\ \E connected \in BOOLEAN :
       /\ mimic_open' = (mimic_open \/ connected)
       /\ IF mimic_open'
            THEN /\ sample_draws' = sample_draws + 1
                 /\ sampled_db' = sample_draws + 1
                 /\ sw_pc' = "queries"
            ELSE /\ UNCHANGED <<sample_draws, sampled_db>>
                 /\ sw_pc' = "aborted"

\* lines 128-134: one workload, or two zipped into pairs
SwQueries ==
  /\ sw_pc = "queries"
  /\ IF ~use_cooc
       THEN /\ query_draws' = query_draws + 1
            /\ kw_sample' = <<query_draws + 1>>
       ELSE /\ query_draws' = query_draws + 2
            /\ kw_sample' = <<query_draws + 1, query_draws + 2>>
  /\ sw_pc' = "sampling"
  /\ UNCHANGED <<nr_of_evals, use_cooc, sw_i, sw_rate_idx, mimic_open,
                 sample_draws, sampled_db, results_list>>
  /\ UNCHANGED <<estVars, metricVars, evalVars, sqlVars>>

\* lines 137-140: SamplingRelationalEstimator is constructed and evaluated;
\* an exception of either ends the run
SwSampling ==
  /\ sw_pc = "sampling"
  /\ \/ /\ results_list' = Append(results_list, record("SAMPLING"))
        /\ sw_pc' = "kde"
     \/ /\ UNCHANGED results_list
        /\ sw_pc' = "aborted"
  /\ UNCHANGED <<nr_of_evals, use_cooc, sw_i, sw_rate_idx, mimic_open,
                 sample_draws, query_draws, sampled_db, kw_sample>>
  /\ UNCHANGED <<estVars, metricVars, evalVars, sqlVars>>

\* a KDE step that draws a sample of its own first
SwKde_redraw ==
  /\ sw_pc = "kde"
  /\ sample_draws' = sample_draws + 1
  /\ sampled_db' = sample_draws + 1
  /\ \/ /\ results_list' = Append(results_list,
             [record("KDE") EXCEPT !.sample = sample_draws + 1,
                                   !.draws = sample_draws + 1 + query_draws])
        /\ sw_pc' = "naru"
     \/ /\ UNCHANGED results_list
        /\ sw_pc' = "aborted"
  /\ UNCHANGED <<nr_of_evals, use_cooc, sw_i, sw_rate_idx, mimic_open,
                 query_draws, kw_sample>>
  /\ UNCHANGED <<estVars, metricVars, evalVars, sqlVars>>

\* lines 148-150: KDERelationalEstimator
SwKde ==
  /\ sw_pc = "kde"
  /\ \/ /\ results_list' = Append(results_list, record("KDE"))
        /\ sw_pc' = "naru"
     \/ /\ UNCHANGED results_list
        /\ sw_pc' = "aborted"
  /\ UNCHANGED <<nr_of_evals, use_cooc, sw_i, sw_rate_idx, mimic_open,
                 sample_draws, query_draws, sampled_db, kw_sample>>
  /\ UNCHANGED <<estVars, metricVars, evalVars, sqlVars>>

\* lines 166-168: NaruRelationalEstimator; then the loops of lines 120 and 124
\* advance
SwNaru ==
  /\ sw_pc = "naru"
  /\ \/ /\ results_list' = Append(results_list, record("NARU"))
        /\ IF sw_rate_idx < Len(Rates)
             THEN /\ sw_rate_idx' = sw_rate_idx + 1
                  /\ UNCHANGED sw_i
                  /\ sw_pc' = "rate"
             ELSE IF sw_i + 1 < nr_of_evals
               THEN /\ sw_rate_idx' = 1
                    /\ sw_i' = sw_i + 1
                    /\ sw_pc' = "rate"
               ELSE /\ UNCHANGED <<sw_rate_idx, sw_i>>
                    /\ sw_pc' = "report"
     \/ /\ UNCHANGED <<results_list, sw_rate_idx, sw_i>>
        /\ sw_pc' = "aborted"
  /\ UNCHANGED <<nr_of_evals, use_cooc, mimic_open, sample_draws, query_draws,
                 sampled_db, kw_sample>>
  /\ UNCHANGED <<estVars, metricVars, evalVars, sqlVars>>

\* lines 170-177: the records are aggregated and plotted, then mimic_db.close()
SwReport ==
  /\ sw_pc = "report"
  /\ mimic_open' = FALSE
  /\ sw_pc' = "done"
  /\ UNCHANGED <<nr_of_evals, use_cooc, sw_i, sw_rate_idx, sample_draws,
                 query_draws, sampled_db, kw_sample, results_list>>
  /\ UNCHANGED <<estVars, metricVars, evalVars, sqlVars>>

NextSweep ==
  \/ SwBegin
  \/ SwOpenSample
  \/ SwQueries
  \/ SwSampling
  \/ SwKde
  \/ SwNaru
  \/ SwReport

SpecSweep == InitSweep /\ [][NextSweep]_vars

\* ------------------------------------------------------------------------
\* Properties of run_rlen_eval (checked under SpecSweep)
\* ------------------------------------------------------------------------
Methods == {"SAMPLING", "KDE", "NARU"}
RecordsOf(trial, rate) ==
  {j \in 1..Len(results_list) :
     results_list[j].trial = trial /\ results_list[j].rate = rate}

\* C6: the records of one (trial, rate) were all made on the same sample and
\* the same workload with no sample() or queries() draw in between, and
\* whenever a new sample or workload has just been drawn every (trial, rate)
\* recorded so far has its three evaluations.
C6_SameSampleAndWorkload ==
  /\ \A j, k \in 1..Len(results_list) :
       (results_list[j].trial = results_list[k].trial
          /\ results_list[j].rate = results_list[k].rate)
       => /\ results_list[j].sample = results_list[k].sample
          /\ results_list[j].workload = results_list[k].workload
          /\ results_list[j].draws = results_list[k].draws
  /\ \A j, k \in 1..Len(results_list) :
       (results_list[j].trial # results_list[k].trial
          \/ results_list[j].rate # results_list[k].rate)
       => /\ results_list[j].sample # results_list[k].sample
          /\ results_list[j].workload # results_list[k].workload
  /\ sw_pc \in {"queries", "sampling"} =>
       \A j \in 1..Len(results_list) :
         /\ results_list[j].sample # sampled_db
         /\ {results_list[k].method :
               k \in RecordsOf(results_list[j].trial, results_list[j].rate)}
              = Methods

\* C6 witness: in the second rate of a trial the sampling and the
\* kernel-density estimator have been evaluated.
C6_Witness ==
  /\ sw_pc = "naru"
  /\ sw_rate_idx = 2
  /\ Len(results_list) >= 5
  /\ results_list[Len(results_list)].method = "KDE"

\* C8: a sweep that runs to completion has recorded exactly one record per
\* (trial, rate, estimator) over the rates 0.2, 0.4, 0.6, 0.8 and the three
\* estimators: 4 * nr_of_evals * 3 records, each labelled with estimator and
\* rate.
C8_RecordCount ==
  sw_pc = "done" =>
    /\ Len(results_list) = 4 * nr_of_evals * 3
    /\ \A trial \in 0..(nr_of_evals - 1), rate \in {2, 4, 6, 8}, m \in Methods :
         Cardinality({j \in RecordsOf(trial, rate) :
                        results_list[j].method = m}) = 1

\* C8 witness: a sweep of two trials has completed with 24 records.
C8_Witness ==
  /\ sw_pc = "done"
  /\ nr_of_evals = 2
  /\ Len(results_list) = 24

\* C10: the session the sweep opened is closed when the sweep has ended,
\* after a normal completion and after an estimator raised mid-run.
C10_SessionClosedAtEnd ==
  sw_pc \in {"done", "aborted"} => ~mimic_open

====
